---- MODULE Spec2Model ----
(***************************************************************************)
(* Model of "Environment Setup/setup_project.py": an interactive project   *)
(* scaffolder.  Strings are sequences of one-character strings, so that    *)
(* strip(), lower() and the regular expression of verify_folder_name are   *)
(* computed character by character.  The filesystem is the project path    *)
(* and the four paths the program touches below it.                        *)
(***************************************************************************)
EXTENDS Integers, Sequences, FiniteSets, TLC

VARIABLES pc, exit_status, folder_name, fs, fs0, log, calls,
          prompt, retry_limit, reads, yn_result, return_to,
          answer, manage_result

(* pc            position of the process: "start", "input", "verify",       *)
(*               "manage", "yes_no", "manage_reuse", "pipfile",             *)
(*               "pipfile_overwrite", "gitignore", "gitignore_overwrite",   *)
(*               "structure", "returned", "exited"                          *)
(* exit_status   -1 while running, else the status the process ended with   *)
(* folder_name   main's folder_name, after strip()                          *)
(* fs, fs0       the filesystem now and at process start                    *)
(* log           messages logged, and the traceback of an uncaught error    *)
(* calls         functions invoked so far, in order                         *)
(* prompt, retry_limit, reads, return_to                                    *)
(*               the running get_yes_no_input call: its question, its       *)
(*               limit, the lines it consumed, and where it returns to      *)
(* yn_result     what the last get_yes_no_input call returned               *)
(* answer        per question, "yes"/"no" once get_yes_no_input returned    *)
(* manage_result "True"/"False" once manage_folder returned, else "none"    *)

vars == <<pc, exit_status, folder_name, fs, fs0, log, calls,
          prompt, retry_limit, reads, yn_result, return_to,
          answer, manage_result>>

-----------------------------------------------------------------------------
(* Bounds of the model                                                      *)

MaxLen == 3

MaxRetryLimit == 4

-----------------------------------------------------------------------------
(* Characters and strings                                                   *)

DefaultRetryLimit == 3

Letters == {"a", "b", "d", "e", "m", "n", "o", "s", "y", "E", "N", "S", "Y"}

Digits == {"1"}

WordChars == Letters \cup Digits \cup {"_"}

Whitespace == {" ", "\n", "\t"}

\* the character class [\w\- ] of the pattern
PatternClass == WordChars \cup {"-", " "}

\* str.lower() on one character
LowerChar(c) ==
    CASE c = "E" -> "e"
      [] c = "N" -> "n"
      [] c = "S" -> "s"
      [] c = "Y" -> "y"
      [] OTHER -> c

Lower(s) == [i \in 1..Len(s) |-> LowerChar(s[i])]

RECURSIVE LStrip(_)
LStrip(s) ==
    IF s = <<>> THEN s
    ELSE IF Head(s) \in Whitespace THEN LStrip(Tail(s)) ELSE s

RECURSIVE RStrip(_)
RStrip(s) ==
    IF s = <<>> THEN s
    ELSE IF s[Len(s)] \in Whitespace THEN RStrip(SubSeq(s, 1, Len(s) - 1)) ELSE s

\* str.strip()
Strip(s) == RStrip(LStrip(s))

\* re.match(r'^[\w\- ]+$', s): one or more class characters from the start,
\* then '$', which matches at the end of the string and also just before a
\* newline that is the last character of the string.
ReMatch(s) ==
    \E k \in 1..Len(s) :
        /\ \A i \in 1..k : s[i] \in PatternClass
        /\ \/ k = Len(s)
           \/ k = Len(s) - 1 /\ s[Len(s)] = "\n"

\* a pattern without its anchors, as re.search would apply it
ReSearchUnanchored(s) == \E i \in 1..Len(s) : s[i] \in PatternClass

\* the branch verify_folder_name takes: TRUE logs "valid", FALSE exits 1
VerifyFolderNameOk(s) == ReMatch(s)

-----------------------------------------------------------------------------
(* Inputs                                                                   *)

\* alphabet of the strings verify_folder_name is applied to directly
NameChars == {"a", "Y", "1", "_", "-", " ", "/", "!", "\n"}

RECURSIVE StringsUpTo(_)
StringsUpTo(n) ==
    IF n = 0 THEN {<<>>}
    ELSE LET shorter == StringsUpTo(n - 1)
         IN  shorter \cup {Append(s, c) : s \in {t \in shorter : Len(t) = n - 1},
                                          c \in NameChars}

\* lines typed at "Enter the name of your python project: "
RawNames ==
    { <<"m", "y", "_", "a">>,
      <<" ", "m", "y", " ", "a", " ">>,
      <<"a", "-", "1", "\n">>,
      <<"b", "a", "d", "/", "n">>,
      <<"a", "!">>,
      <<" ", " ">>,
      <<>> }

\* lines typed at a yes/no question
Responses ==
    { <<"y", "e", "s">>,
      <<"Y">>,
      <<" ", "Y", "E", "S", " ">>,
      <<"n", "o">>,
      <<"N">>,
      <<"y", "e">>,
      <<"o", "n">>,
      <<>> }

-----------------------------------------------------------------------------
(* Filesystem                                                               *)

pipfile_content == "pipfile_content"

gitignore_content == "gitignore_content"

OtherContent == "other_content"

Absent == "absent"

Dir == "dir"

\* os.path.exists
Exists(entry) == entry # Absent

IsDir(entry) == entry = Dir

IsFile(entry) == Exists(entry) /\ ~IsDir(entry)

FileEntries == {Absent, Dir, OtherContent}

DirEntries == {Absent, Dir, OtherContent}

\* the filesystems a run can start in: nothing lies below a path that is
\* not a directory
InitialFilesystems ==
    { [root |-> r, Pipfile |-> Absent, gitignore |-> Absent,
       src |-> Absent, tests |-> Absent] : r \in {Absent, OtherContent} }
    \cup
    { [root |-> Dir, Pipfile |-> p, gitignore |-> g, src |-> s, tests |-> t] :
        p \in FileEntries, g \in FileEntries, s \in DirEntries, t \in DirEntries }

-----------------------------------------------------------------------------
(* Pure parts of the functions                                              *)

Prompts == {"reuse", "Pipfile", "gitignore"}

\* a loop that forgets the one-letter answer 'n'
YesNoDecisionWithoutN(response) ==
    IF response \in {<<"y", "e", "s">>, <<"y">>} THEN "True"
    ELSE IF response \in {<<"n", "o">>} THEN "False"
    ELSE "retry"

\* get_yes_no_input: what one normalised response decides
YesNoDecision(response) ==
    IF response \in {<<"y", "e", "s">>, <<"y">>} THEN "True"
    ELSE IF response \in {<<"n", "o">>, <<"n">>} THEN "False"
    ELSE "retry"

\* a manage_folder that returns True on both branches of the answer
ManageFolderReuseAlways(use_existing) == TRUE

\* manage_folder, existing path: the value returned for the user's answer
ManageFolderReuse(use_existing) == use_existing

\* a check_and_overwrite_file that never refuses
CheckAndOverwriteFileAlways(exists, response) == "True"

\* check_and_overwrite_file: `response` is the bool get_yes_no_input
\* returned, and bool has no method lower(), so evaluating
\* response.lower() raises AttributeError before either branch is taken.
CheckAndOverwriteFile(exists, response) ==
    IF ~exists THEN "True"
    ELSE IF response \in BOOLEAN THEN "AttributeError"
    ELSE IF Lower(response) \in {<<"y", "e", "s">>, <<"y">>} THEN "True"
    ELSE "False"

\* open(path, "w") succeeds when the parent is a directory and the target
\* is not one
CanOpenForWrite(f, target) == IsDir(f.root) /\ ~IsDir(f[target])

\* os.makedirs(os.path.join(folder_name, sub)) can succeed when the project
\* path is a directory or absent (it is then created as well)
CanMakedirs(f) == f.root \in {Absent, Dir}

Makedirs(f, sub) == [f EXCEPT !.root = Dir, ![sub] = Dir]

-----------------------------------------------------------------------------
(* Steps                                                                    *)

Halt(status) == pc' = "exited" /\ exit_status' = status

\* get_yes_no_input(question) is entered with the default retry limit
CallYesNo(question, back) ==
    /\ pc' = "yes_no"
    /\ prompt' = question
    /\ retry_limit' = DefaultRetryLimit
    /\ reads' = <<>>
    /\ return_to' = back

\* an exception nothing catches: traceback on stderr, exit status 1
Uncaught(exception) ==
    /\ log' = Append(log, exception)
    /\ Halt(1)

CheckPython3Installed ==
    /\ pc = "start"
    /\ calls' = Append(calls, "check_python3_installed")
    /\ \E outcome \in {"returncode 0", "returncode nonzero", "FileNotFoundError"} :
        IF outcome = "returncode 0"
        THEN /\ log' = Append(log, "Python interpreter is installed")
             /\ pc' = "input"
             /\ UNCHANGED exit_status
        ELSE /\ log' = Append(log, "Python interpreter is not installed.")
             /\ Halt(1)
    /\ UNCHANGED <<folder_name, fs, fs0, prompt, retry_limit, reads, yn_result,
                   return_to, answer, manage_result>>

InputName ==
    /\ pc = "input"
    /\ \E raw \in RawNames : folder_name' = Strip(raw)
    /\ calls' = Append(calls, "input")
    /\ pc' = "verify"
    /\ UNCHANGED <<exit_status, fs, fs0, log, prompt, retry_limit, reads,
                   yn_result, return_to, answer, manage_result>>

VerifyFolderName ==
    /\ pc = "verify"
    /\ calls' = Append(calls, "verify_folder_name")
    /\ IF VerifyFolderNameOk(folder_name)
       THEN /\ log' = Append(log, "is a valid folder name.")
            /\ pc' = "manage"
            /\ UNCHANGED exit_status
       ELSE /\ log' = Append(log, "is not a valid folder name.")
            /\ Halt(1)
    /\ UNCHANGED <<folder_name, fs, fs0, prompt, retry_limit, reads, yn_result,
                   return_to, answer, manage_result>>

\* main, after manage_folder returned `result`
AfterManageFolder(result, messages) ==
    /\ manage_result' = IF result THEN "True" ELSE "False"
    /\ IF result
       THEN /\ log' = log \o messages \o <<"Setup will proceed using the folder">>
            /\ pc' = "pipfile"
            /\ UNCHANGED exit_status
       ELSE /\ log' = log \o messages \o <<"Setup was cancelled by the user.">>
            /\ Halt(0)

ManageFolder ==
    /\ pc = "manage"
    /\ IF Exists(fs.root)
       THEN /\ calls' = calls \o <<"manage_folder", "get_yes_no_input">>
            /\ CallYesNo("reuse", "manage_reuse")
            /\ UNCHANGED <<exit_status, fs, log, manage_result>>
       ELSE /\ calls' = Append(calls, "manage_folder")
            /\ \E oserror \in BOOLEAN :
                IF oserror
                THEN /\ fs' = fs
                     /\ AfterManageFolder(FALSE, <<"Failed to create the folder">>)
                ELSE /\ fs' = [fs EXCEPT !.root = Dir]
                     /\ AfterManageFolder(TRUE, <<"Folder created.">>)
            /\ UNCHANGED <<prompt, retry_limit, reads, return_to>>
    /\ UNCHANGED <<folder_name, fs0, yn_result, answer>>

ManageFolderAnswered ==
    /\ pc = "manage_reuse"
    /\ IF ManageFolderReuse(yn_result)
       THEN AfterManageFolder(TRUE, <<"Using the existing folder">>)
       ELSE AfterManageFolder(FALSE, <<"User chose not to use the existing folder.">>)
    /\ UNCHANGED <<folder_name, fs, fs0, calls, prompt, retry_limit, reads,
                   yn_result, return_to, answer>>

\* one pass of the loop of get_yes_no_input, or the exit after the loop
GetYesNoInput ==
    /\ pc = "yes_no"
    /\ IF Len(reads) >= retry_limit
       THEN /\ log' = Append(log, "Too many invalid inputs.")
            /\ Halt(1)
            /\ UNCHANGED <<reads, yn_result, answer>>
       ELSE \E line \in Responses :
            LET decision == YesNoDecision(Lower(Strip(line))) IN
            /\ reads' = Append(reads, line)
            /\ IF decision = "retry"
               THEN /\ log' = Append(log, "Invalid input. Please answer 'yes' or 'no'.")
                    /\ UNCHANGED <<pc, yn_result, answer>>
               ELSE /\ yn_result' = (decision = "True")
                    /\ answer' = [answer EXCEPT
                                    ![prompt] = IF decision = "True" THEN "yes" ELSE "no"]
                    /\ pc' = return_to
                    /\ UNCHANGED log
            /\ UNCHANGED exit_status
    /\ UNCHANGED <<folder_name, fs, fs0, calls, prompt, retry_limit, return_to,
                   manage_result>>

\* create_pipfile / create_gitignore once check_and_overwrite_file has
\* produced `outcome`
WriteTemplate(target, content, outcome, created, declined, next) ==
    CASE outcome = "AttributeError" ->
            /\ Uncaught("Traceback: AttributeError")
            /\ fs' = fs
      [] outcome = "True" /\ CanOpenForWrite(fs, target) ->
            /\ fs' = [fs EXCEPT ![target] = content]
            /\ log' = log \o created
            /\ pc' = next
            /\ UNCHANGED exit_status
      [] outcome = "True" /\ ~CanOpenForWrite(fs, target) ->
            /\ Uncaught("Traceback: OSError")
            /\ fs' = fs
      [] OTHER ->
            /\ fs' = fs
            /\ log' = log \o <<"User chose not to overwrite the existing file">> \o declined
            /\ pc' = next
            /\ UNCHANGED exit_status

CreatePipfile ==
    /\ pc = "pipfile"
    /\ IF Exists(fs.Pipfile)
       THEN /\ calls' = calls \o <<"create_pipfile", "check_and_overwrite_file",
                                   "get_yes_no_input">>
            /\ CallYesNo("Pipfile", "pipfile_overwrite")
            /\ UNCHANGED <<exit_status, fs, log>>
       ELSE /\ calls' = calls \o <<"create_pipfile", "check_and_overwrite_file">>
            /\ WriteTemplate("Pipfile", pipfile_content,
                             CheckAndOverwriteFile(FALSE, yn_result),
                             <<"Pipfile created.">>,
                             <<"The existing Pipfile was not overwritten.">>,
                             "gitignore")
            /\ UNCHANGED <<prompt, retry_limit, reads, return_to>>
    /\ UNCHANGED <<folder_name, fs0, yn_result, answer, manage_result>>

PipfileAnswered ==
    /\ pc = "pipfile_overwrite"
    /\ WriteTemplate("Pipfile", pipfile_content,
                     CheckAndOverwriteFile(TRUE, yn_result),
                     <<"Pipfile created.">>,
                     <<"The existing Pipfile was not overwritten.">>,
                     "gitignore")
    /\ UNCHANGED <<folder_name, fs0, calls, prompt, retry_limit, reads, yn_result,
                   return_to, answer, manage_result>>

CreateGitignore ==
    /\ pc = "gitignore"
    /\ IF Exists(fs.gitignore)
       THEN /\ calls' = calls \o <<"create_gitignore", "check_and_overwrite_file",
                                   "get_yes_no_input">>
            /\ CallYesNo("gitignore", "gitignore_overwrite")
            /\ UNCHANGED <<exit_status, fs, log>>
       ELSE /\ calls' = calls \o <<"create_gitignore", "check_and_overwrite_file">>
            /\ WriteTemplate("gitignore", gitignore_content,
                             CheckAndOverwriteFile(FALSE, yn_result),
                             <<".gitignore file created.">>, <<>>, "structure")
            /\ UNCHANGED <<prompt, retry_limit, reads, return_to>>
    /\ UNCHANGED <<folder_name, fs0, yn_result, answer, manage_result>>

GitignoreAnswered ==
    /\ pc = "gitignore_overwrite"
    /\ WriteTemplate("gitignore", gitignore_content,
                     CheckAndOverwriteFile(TRUE, yn_result),
                     <<".gitignore file created.">>, <<>>, "structure")
    /\ UNCHANGED <<folder_name, fs0, calls, prompt, retry_limit, reads, yn_result,
                   return_to, answer, manage_result>>

\* create_project_structure, then main returns and the process ends with 0
CreateProjectStructure ==
    /\ pc = "structure"
    /\ calls' = Append(calls, "create_project_structure")
    /\ \E src_oserror \in BOOLEAN, tests_oserror \in BOOLEAN :
        LET src_fails    == ~Exists(fs.src) /\ (src_oserror \/ ~CanMakedirs(fs))
            after_src    == IF Exists(fs.src) THEN fs ELSE Makedirs(fs, "src")
            src_message  == IF Exists(fs.src)
                            THEN "Source directory already exists"
                            ELSE "Source directory created"
            tests_fails  == ~Exists(after_src.tests)
                            /\ (tests_oserror \/ ~CanMakedirs(after_src))
            after_tests  == IF Exists(after_src.tests) THEN after_src
                            ELSE Makedirs(after_src, "tests")
            tests_message == IF Exists(after_src.tests)
                             THEN "Tests directory already exists"
                             ELSE "Tests directory created"
        IN  IF src_fails
            THEN /\ fs' = fs
                 /\ log' = Append(log, "Failed to create project directories")
                 /\ Halt(1)
            ELSE IF tests_fails
            THEN /\ fs' = after_src
                 /\ log' = log \o <<src_message, "Failed to create project directories">>
                 /\ Halt(1)
            ELSE /\ fs' = after_tests
                 /\ log' = log \o <<src_message, tests_message>>
                 /\ Halt(0)
    /\ UNCHANGED <<folder_name, fs0, prompt, retry_limit, reads, yn_result,
                   return_to, answer, manage_result>>

-----------------------------------------------------------------------------
(* Specifications                                                           *)

InitIdle ==
    /\ exit_status = -1
    /\ folder_name = <<>>
    /\ fs0 = fs
    /\ log = <<>>
    /\ calls = <<>>
    /\ prompt = "none"
    /\ retry_limit = DefaultRetryLimit
    /\ reads = <<>>
    /\ yn_result = FALSE
    /\ return_to = "none"
    /\ answer = [p \in Prompts |-> "none"]
    /\ manage_result = "none"

\* a run of the script
Init ==
    /\ pc = "start"
    /\ fs \in InitialFilesystems
    /\ InitIdle

Next ==
    \/ CheckPython3Installed
    \/ InputName
    \/ VerifyFolderName
    \/ ManageFolder
    \/ ManageFolderAnswered
    \/ GetYesNoInput
    \/ CreatePipfile
    \/ PipfileAnswered
    \/ CreateGitignore
    \/ GitignoreAnswered
    \/ CreateProjectStructure

Spec == Init /\ [][Next]_vars

\* verify_folder_name applied to any string
InitVerify ==
    /\ pc = "verify"
    /\ fs \in InitialFilesystems
    /\ fs.root = Absent
    /\ exit_status = -1
    /\ folder_name \in StringsUpTo(MaxLen)
    /\ fs0 = fs
    /\ log = <<>>
    /\ calls = <<>>
    /\ prompt = "none"
    /\ retry_limit = DefaultRetryLimit
    /\ reads = <<>>
    /\ yn_result = FALSE
    /\ return_to = "none"
    /\ answer = [p \in Prompts |-> "none"]
    /\ manage_result = "none"

NextVerify == VerifyFolderName

SpecVerify == InitVerify /\ [][NextVerify]_vars

\* get_yes_no_input called with any retry limit
InitYesNo ==
    /\ pc = "yes_no"
    /\ fs \in InitialFilesystems
    /\ fs.root = Absent
    /\ exit_status = -1
    /\ folder_name = <<>>
    /\ fs0 = fs
    /\ log = <<>>
    /\ calls = <<"get_yes_no_input">>
    /\ prompt = "reuse"
    /\ retry_limit \in 0..MaxRetryLimit
    /\ reads = <<>>
    /\ yn_result = FALSE
    /\ return_to = "returned"
    /\ answer = [p \in Prompts |-> "none"]
    /\ manage_result = "none"

NextYesNo == GetYesNoInput

SpecYesNo == InitYesNo /\ [][NextYesNo]_vars

-----------------------------------------------------------------------------
(* Vocabulary of the properties                                             *)

Logged(message) == \E i \in 1..Len(log) : log[i] = message

Times(f) == Cardinality({i \in 1..Len(calls) : calls[i] = f})

Called(f) == Times(f) > 0

IsPrefix(a, b) == Len(a) <= Len(b) /\ SubSeq(b, 1, Len(a)) = a

TemplateOf(target) == IF target = "Pipfile" THEN pipfile_content ELSE gitignore_content

WriterOf(target) == IF target = "Pipfile" THEN "create_pipfile" ELSE "create_gitignore"

PendingOf(target) == IF target = "Pipfile" THEN "pipfile_overwrite" ELSE "gitignore_overwrite"

\* the File Writer was entered for `target` and is no longer inside it
Handled(target) ==
    /\ Called(WriterOf(target))
    /\ ~(pc = "yes_no" /\ prompt = target)
    /\ pc # PendingOf(target)

\* a name as section 3 of the specification constrains it
AllowedNameChars == {"a", "b", "d", "e", "m", "n", "o", "s", "y", "E", "N", "S", "Y",
                     "1", "_", "-", " "}

AllowedName(s) == Len(s) > 0 /\ \A i \in 1..Len(s) : s[i] \in AllowedNameChars

IsYes(line) == Lower(Strip(line)) \in {<<"y", "e", "s">>, <<"y">>}

IsNo(line) == Lower(Strip(line)) \in {<<"n", "o">>, <<"n">>}

Recognised(line) == IsYes(line) \/ IsNo(line)

MainSteps == <<"check_python3_installed", "input", "verify_folder_name", "manage_folder",
               "create_pipfile", "create_gitignore", "create_project_structure">>

MainCalls == SelectSeq(calls, LAMBDA c : \E i \in 1..Len(MainSteps) : MainSteps[i] = c)

\* runs in which the project path is a directory or absent and no yes/no
\* question ran out of retries
PlainRun == fs0.root \in {Absent, Dir} /\ ~Logged("Too many invalid inputs.")

-----------------------------------------------------------------------------
(* C1: a template target that already existed when the File Writer reached *)
(* it has its content changed only if the answer to the overwrite question *)
(* was yes; after a declined overwrite the content is the one before the   *)
(* run.                                                                     *)
C1_ExistingFileChangedOnlyOnConsent ==
    \A target \in {"Pipfile", "gitignore"} :
        (Exists(fs0[target]) /\ fs[target] # fs0[target]) => answer[target] = "yes"

C1_Witness ==
    /\ pc = "exited"
    /\ IsFile(fs0.Pipfile)
    /\ answer["Pipfile"] = "no"
    /\ Handled("Pipfile")
    /\ fs.Pipfile = fs0.Pipfile

(* C2: for each template, once the File Writer has handled it, a target    *)
(* that was absent, or present with the overwrite accepted, holds exactly  *)
(* the fixed template content; and the ignore-file is handled whatever     *)
(* happened with the manifest.  Stated for runs whose project path is a    *)
(* directory and whose questions all got an answer.                        *)
C2_WrittenWhenAbsentOrConsented ==
    PlainRun =>
        /\ \A target \in {"Pipfile", "gitignore"} :
            (Handled(target) /\ (~Exists(fs0[target]) \/ answer[target] = "yes"))
                => fs[target] = TemplateOf(target)
        /\ (pc = "exited" /\ Called("create_pipfile")) => Called("create_gitignore")

(* C3: verify_folder_name(s) returns normally exactly when s is non-empty  *)
(* and made of letters, digits, '_', '-' and spaces only; on any other     *)
(* string it logs an error and exits with status 1.                        *)
C3_AcceptsExactlyAllowedNames ==
    pc # "verify" =>
        /\ (pc = "manage") = AllowedName(folder_name)
        /\ ~AllowedName(folder_name) =>
              pc = "exited" /\ exit_status = 1 /\ Logged("is not a valid folder name.")

(* C4: when the entered name fails validation the run ends with status 1   *)
(* having changed nothing on the filesystem and asked no yes/no question.  *)
C4_InvalidNameExitsBeforeAnyMutation ==
    /\ pc \in {"start", "input", "verify"} =>
          fs = fs0 /\ ~Called("get_yes_no_input")
    /\ (Called("verify_folder_name") /\ ~AllowedName(folder_name)) =>
          /\ pc = "exited"
          /\ exit_status = 1
          /\ fs = fs0
          /\ ~Called("get_yes_no_input")
          /\ ~Called("manage_folder")

C4_Witness ==
    /\ pc = "exited"
    /\ exit_status = 1
    /\ folder_name = <<"b", "a", "d", "/", "n">>
    /\ Called("verify_folder_name")

(* C5: main runs interpreter check, name prompt, validation and folder     *)
(* step in that order, each at most once; after a successful folder step   *)
(* the manifest writer, the ignore-file writer and the subdirectory        *)
(* creator are each invoked exactly once, in that order; after a failed    *)
(* folder step none of them is invoked, nothing below the project path     *)
(* changes, the cancellation is logged and the run stops.  The second part *)
(* is stated for runs whose project path is a directory and whose          *)
(* questions all got an answer.                                             *)
C5_StepsInOrderEachOnce ==
    /\ IsPrefix(MainCalls, MainSteps)
    /\ (PlainRun /\ pc = "exited" /\ manage_result = "True") => MainCalls = MainSteps
    /\ manage_result = "False" =>
          /\ pc = "exited"
          /\ MainCalls = SubSeq(MainSteps, 1, 4)
          /\ Logged("Setup was cancelled by the user.")
          /\ \A p \in {"Pipfile", "gitignore", "src", "tests"} : fs[p] = fs0[p]

(* C6: the exit status is 1 exactly when the name was invalid, the         *)
(* interpreter was missing, a yes/no question ran out of retries or a      *)
(* subdirectory could not be created, and 0 otherwise, in particular when  *)
(* the user declines to reuse the folder or to overwrite a template.       *)
(* Stated for runs whose project path is a directory or absent.            *)
C6_ExitStatus ==
    (pc = "exited" /\ fs0.root \in {Absent, Dir}) =>
        /\ exit_status \in {0, 1}
        /\ (exit_status = 1) =
              \/ Logged("is not a valid folder name.")
              \/ Logged("Python interpreter is not installed.")
              \/ Logged("Too many invalid inputs.")
              \/ Logged("Failed to create project directories")

(* C7: get_yes_no_input reads at most retry_limit responses, consumes only *)
(* unrecognised ones before the one it decides on, returns true for        *)
(* yes/y and false for no/n after trimming and lower-casing, and exits     *)
(* with status 1 once retry_limit responses were all unrecognised.         *)
C7_YesNoState ==
    /\ Len(reads) <= retry_limit
    /\ \A i \in 1..(Len(reads) - 1) : ~Recognised(reads[i])
    /\ pc = "yes_no" => \A i \in 1..Len(reads) : ~Recognised(reads[i])
    /\ pc = "returned" =>
          /\ reads # <<>>
          /\ Recognised(reads[Len(reads)])
          /\ yn_result = IsYes(reads[Len(reads)])
          /\ exit_status = -1
    /\ pc = "exited" =>
          /\ exit_status = 1
          /\ Len(reads) = retry_limit
          /\ \A i \in 1..Len(reads) : ~Recognised(reads[i])

C7_YesNoPrompt ==
    /\ []C7_YesNoState
    /\ [][(pc = "yes_no" /\ Len(reads) = retry_limit)
              => (pc' = "exited" /\ exit_status' = 1 /\ reads' = reads)]_vars
    /\ [][(pc = "yes_no" /\ Len(reads) < retry_limit)
              => (Len(reads') = Len(reads) + 1
                  /\ (Recognised(reads'[Len(reads')]) = (pc' = "returned")))]_vars

C7_Witness ==
    /\ pc = "returned"
    /\ retry_limit = DefaultRetryLimit
    /\ Len(reads) = DefaultRetryLimit
    /\ reads[3] = <<"N">>
    /\ yn_result = FALSE

(* C8: manage_folder returns true exactly when the path existed and the    *)
(* user accepted reuse (filesystem unchanged) or the path did not exist    *)
(* and the call created it; it returns false, and the process goes on to   *)
(* end normally, when the user declines reuse or the creation fails.       *)
(* "Existed" is what os.path.exists reports.                               *)
C8_ManageFolderResult ==
    /\ (manage_result = "True") =
          /\ Called("manage_folder")
          /\ pc \notin {"manage_reuse", "yes_no"} \/ prompt # "reuse"
          /\ \/ Exists(fs0.root) /\ answer["reuse"] = "yes"
             \/ ~Exists(fs0.root) /\ Logged("Folder created.")
    /\ (manage_result = "True" /\ pc = "pipfile") =>
          fs = IF Exists(fs0.root) THEN fs0 ELSE [fs0 EXCEPT !.root = Dir]
    /\ manage_result = "False" =>
          /\ \/ Exists(fs0.root) /\ answer["reuse"] = "no"
             \/ ~Exists(fs0.root) /\ Logged("Failed to create the folder")
          /\ fs = fs0
          /\ pc = "exited"
          /\ exit_status = 0
          /\ Logged("Setup was cancelled by the user.")
    /\ (pc = "exited" /\ Called("manage_folder") /\ manage_result = "none") =>
          exit_status = 1 /\ Logged("Too many invalid inputs.")

C8_Witness ==
    /\ pc = "exited"
    /\ manage_result = "False"
    /\ IsDir(fs0.root)
    /\ answer["reuse"] = "no"
    /\ exit_status = 0

(* C9: whenever create_project_structure returns normally, src and tests   *)
(* both exist as directories below the project path, each created only if  *)
(* it was absent and an existing one left unchanged; a failure creating    *)
(* either ends the process with status 1.                                  *)
C9_SubdirectoriesEnsured ==
    Called("create_project_structure") =>
        /\ exit_status = 0 => IsDir(fs.src) /\ IsDir(fs.tests)
        /\ \A d \in {"src", "tests"} : Exists(fs0[d]) => fs[d] = fs0[d]
        /\ Logged("Failed to create project directories") => exit_status = 1

(* C10: whenever manage_folder has returned true, the project path exists  *)
(* and is a directory, whatever the filesystem was at the start.           *)
C10_FolderIsDirectoryAfterSuccess ==
    manage_result = "True" => IsDir(fs.root)

====
